---- MODULE Spec2Model ----
(***************************************************************************)
(* Model of sliding_structFunc_opt ("src/GRMHD Variability/plotsf.py"),    *)
(* the sliding-window first-order structure function estimator, followed   *)
(* by models of structFunc (detrend_structure_frac.py), of the binning     *)
(* loop of plotfsdarray.py, of make_simulation_movie_only and of main      *)
(* (simMovie.py).  Each program has its own specification over the one set *)
(* of variables: Spec and SpecKnown, SpecBinned, SpecBinning, SpecMovie,   *)
(* SpecMain.                                                               *)
(*                                                                         *)
(* Numbers.  Python floats are modelled as exact values:                   *)
(*   - a rational is a pair <<n, d>> in lowest terms with d > 0; the pairs *)
(*     with d = 0 are the non-finite floats: <<0,0>> is NaN, <<1,0>> is    *)
(*     +inf and <<-1,0>> is -inf;                                          *)
(*   - the result of np.sqrt is a surd <<s, q>>, the number s * sqrt(q)    *)
(*     with s in {-1, 0, 1} and q a rational (NaN when q is NaN).          *)
(* Time stamps, window widths and lags are integers, so every comparison   *)
(* the code makes on them is exact; dt - dt0/2 <= tau is compared after    *)
(* multiplying both sides by two.  Rounding of floats is not modelled.     *)
(*                                                                         *)
(* Optional arguments: None is <<>> and a supplied argument x is <<x>>.    *)
(* Array indices are 0-based as in the source; element i of a numpy array  *)
(* a is a[i + 1] of the sequence that models it.                           *)
(***************************************************************************)
EXTENDS Integers, Sequences, FiniteSets, TLC

(***************************************************************************)
(* Bounds of the model.                                                    *)
(***************************************************************************)
\* longest time series drawn
MaxN == 3
\* largest time stamp drawn
MaxT == 3

\* flux samples of the input series (fluxes are positive)
FluxValues == {1, 2}
\* measurement errors of the input series
ErrorValues == {1, 2}
\* explicit window widths dt0 a caller passes (dt0 > 0)
WindowWidths == {1, 2}

None == <<>>
Some(x) == <<x>>
IsNone(o) == o = <<>>
Get(o) == o[1]

(***************************************************************************)
(* Exact arithmetic.                                                       *)
(***************************************************************************)
Abs(x) == IF x < 0 THEN -x ELSE x
Sgn(x) == IF x < 0 THEN -1 ELSE IF x = 0 THEN 0 ELSE 1

RECURSIVE GCD(_, _)
GCD(a, b) == IF b = 0 THEN a ELSE GCD(b, a % b)

\* the rational n/d for d # 0, in lowest terms
Rat(n, d) ==
    LET g == GCD(Abs(n), Abs(d))
    IN  <<Sgn(d) * (n \div g), Abs(d) \div g>>

Q(n) == <<n, 1>>
NaN == <<0, 0>>
IsFinite(a) == a[2] # 0
IsNaN(a) == a = NaN

RAdd(a, b) ==
    IF IsFinite(a) /\ IsFinite(b) THEN Rat(a[1] * b[2] + b[1] * a[2], a[2] * b[2])
    ELSE IF ~IsFinite(a) /\ ~IsFinite(b) THEN (IF a = b THEN a ELSE NaN)
    ELSE IF IsFinite(a) THEN b ELSE a

RNeg(a) == <<-a[1], a[2]>>
RSub(a, b) == RAdd(a, RNeg(b))

RMul(a, b) ==
    IF IsFinite(a) /\ IsFinite(b) THEN Rat(a[1] * b[1], a[2] * b[2])
    ELSE <<Sgn(a[1]) * Sgn(b[1]), 0>>

\* IEEE division: x/0 is +-inf, 0/0 is NaN (numpy warns and does not raise)
RDiv(a, b) ==
    IF IsFinite(a) /\ IsFinite(b) /\ b[1] # 0 THEN Rat(a[1] * b[2], a[2] * b[1])
    ELSE IF IsFinite(b) /\ b[1] = 0 THEN <<Sgn(a[1]), 0>>
    ELSE IF IsFinite(a) /\ ~IsNaN(b) THEN Q(0)
    ELSE NaN

\* a <= b on floats: false as soon as one side is NaN
RLe(a, b) ==
    IF IsNaN(a) \/ IsNaN(b) THEN FALSE
    ELSE IF IsFinite(a) /\ IsFinite(b) THEN a[1] * b[2] <= b[1] * a[2]
    ELSE IF ~IsFinite(a) THEN a[1] < 0 \/ a = b
    ELSE b[1] > 0

SNaN == <<0, NaN>>
SZero == <<0, Q(0)>>
SIsNaN(x) == x = SNaN


(***************************************************************************)
(* numpy functions the estimator calls.                                    *)
(***************************************************************************)
\* np.sqrt: the non-negative root; NaN for a NaN or negative argument
np_sqrt(q) ==
    IF IsNaN(q) THEN SNaN
    ELSE IF ~IsFinite(q) THEN (IF q[1] > 0 THEN <<1, q>> ELSE SNaN)
    ELSE IF q[1] < 0 THEN SNaN
    ELSE <<Sgn(q[1]), q>>

\* c * x for an integer c and a surd x
SScale(c, x) ==
    IF SIsNaN(x) THEN SNaN ELSE <<Sgn(c) * x[1], RMul(Q(c * c), x[2])>>

\* x / y on surds, with the IEEE results for a zero divisor
SDiv(x, y) ==
    LET q == RDiv(x[2], y[2])
    IN  IF SIsNaN(x) \/ SIsNaN(y) \/ IsNaN(q) THEN SNaN
        ELSE IF IsFinite(q) /\ q[1] = 0 THEN <<0, q>>
        ELSE <<x[1] * (IF y[1] = 0 THEN 1 ELSE y[1]), q>>

RECURSIVE SumSeq(_)
SumSeq(s) == IF s = <<>> THEN Q(0) ELSE RAdd(s[1], SumSeq(Tail(s)))

\* np.mean: the sum over the length; NaN (0/0, a warning) for an empty array
np_mean(s) == RDiv(SumSeq(s), Q(Len(s)))

\* array / scalar, element by element
DivAll(s, m) == [i \in 1..Len(s) |-> RDiv(s[i], m)]

RECURSIVE Insert(_, _)
Insert(x, s) ==
    IF s = <<>> THEN <<x>>
    ELSE IF x <= s[1] THEN <<x>> \o s
    ELSE <<s[1]>> \o Insert(x, Tail(s))

RECURSIVE np_sort(_)
np_sort(s) == IF s = <<>> THEN <<>> ELSE Insert(s[1], np_sort(Tail(s)))

\* np.diff: s[i+1] - s[i]; empty for fewer than two elements
np_diff(s) == [i \in 1..(IF Len(s) = 0 THEN 0 ELSE Len(s) - 1) |-> s[i + 1] - s[i]]

\* np.min and np.max of a non-empty integer array (they raise on an empty one)
np_min(s) == CHOOSE m \in {s[i] : i \in 1..Len(s)} : \A i \in 1..Len(s) : m <= s[i]
np_max(s) == CHOOSE m \in {s[i] : i \in 1..Len(s)} : \A i \in 1..Len(s) : m >= s[i]

\* ceil(a / b) for b > 0
CeilDiv(a, b) == -((-a) \div b)

\* np.arange(start, stop, step) for step > 0: ceil((stop - start) / step)
\* elements start + k * step
np_arange(start, stop, step) ==
    LET n == CeilDiv(stop - start, step)
    IN  [k \in 1..(IF n < 0 THEN 0 ELSE n) |-> start + (k - 1) * step]

\* np.zeros(n), as the surd 0
np_zeros(n) == [k \in 1..n |-> SZero]

(***************************************************************************)
(* State: the caller's arguments, the locals of sliding_structFunc_opt and *)
(* the position in its body.                                               *)
(***************************************************************************)
VARIABLES
    args,        \* the arrays and options the caller holds and passes
    time,        \* local time (np.array(time))
    value,       \* local value (rebound to the normalized array)
    error,       \* local error: None or the (normalized) array
    dt0,         \* local dt0: None until bound
    dt_max,      \* local dt_max: None until bound
    N,           \* len(time)
    target_dts,  \* the lag grid
    sqrtD1,      \* sqrt(D) per lag
    sigmaD1,     \* None, or the uncertainty per lag
    ave_error,   \* np.mean of the normalized error
    idx,         \* index of the next lag of the for loop
    diffs,       \* the squared differences collected for the last lag
    pairs,       \* per finished lag, the index pairs (i, j) that passed the test
    pc,          \* "call", "loop", "returned" or "raised"
    exc          \* the exception that left the function, "" if none

(***************************************************************************)
(* The other programs of the repository.  args, time, value, error, pc and *)
(* exc are shared: they hold the arguments, the locals of those names, the *)
(* position and the exception of whichever program a behaviour runs.       *)
(***************************************************************************)
\* structFunc ("src/GRMHD Variability/Simulations/detrend_structure_frac.py")
VARIABLES
    nbins,        \* the nbins argument: a number of bins or an array of edges
    Npoints,      \* np.size(time)
    aveerror,     \* np.mean of the normalized error
    taus,         \* the array tau of the lags time[ipt] - time[jpt], in loop order
    diff2,        \* the squared differences, in the same order
    bin_means,    \* per bin, the mean of diff2 (NaN for a bin without lags)
    bin_edges,    \* the edges of the bins
    binnumber,    \* per lag, the number binned_statistic gives its bin
    bin_centers,  \* bin_edges[1:] - bin_width/2
    numberPerBin, \* per index, the number of lags with that bin number
    sigmaSQRTD,   \* the uncertainty array
    result        \* the returned triple of arrays

binned == <<nbins, Npoints, aveerror, taus, diff2, bin_means, bin_edges,
            binnumber, bin_centers, numberPerBin, sigmaSQRTD, result>>

\* the binning loop of "src/GRMHD Variability/EHT Data/Plots/plotfsdarray.py";
\* its loop variable "time", the binning interval, is the shared variable time
VARIABLES
    ctime,         \* SMActime / ALMActime: the time stamps of the day
    flux,          \* SMAflux / ALMAflux: the flux samples of the day
    num_intervals, \* the number of intervals that fit
    index_list,    \* the cut indices
    flux_arr,      \* SMAflux_arr / ALMAflux_arr: the chunks
    fsd_list,      \* per chunk, std / mean
    fsds           \* the averages appended so far

binning == <<ctime, flux, num_intervals, index_list, flux_arr, fsd_list, fsds>>

\* make_simulation_movie_only ("src/simMovie.py")
VARIABLES
    h5_files,      \* the HDF5 files, by what the readers find in them
    use_physical,  \* the reading mode, None until chosen
    dataset_path,  \* None, or the dataset path of the fallback reader
    frame,         \* the index i of the next call of update
    im,            \* the image shown (im.set_array): its file and its reader
    reads          \* every read so far: file index, reader, dataset path

movie == <<h5_files, use_physical, dataset_path, frame, im, reads>>

\* main ("src/simMovie.py"); its local h5_files is the variable h5_files
VARIABLES
    disk,          \* the files that exist, of sim_tmp, title_tmp and out_abs
    stages,        \* the stages of main entered so far, in order
    wh,            \* None, or the pair (w, h) ffprobe_wh returned
    written        \* the files this run has written, in full or in part

mainLocals == <<disk, stages, wh, written>>

\* a program that a behaviour does not run keeps its variables at these values
IdleBinned ==
    /\ nbins = <<>> /\ Npoints = <<>> /\ aveerror = <<>> /\ taus = <<>>
    /\ diff2 = <<>> /\ bin_means = <<>> /\ bin_edges = <<>> /\ binnumber = <<>>
    /\ bin_centers = <<>> /\ numberPerBin = <<>> /\ sigmaSQRTD = <<>>
    /\ result = <<>>

IdleBinning ==
    /\ ctime = <<>> /\ flux = <<>> /\ num_intervals = <<>> /\ index_list = <<>>
    /\ flux_arr = <<>> /\ fsd_list = <<>> /\ fsds = <<>>

IdleMovie ==
    /\ h5_files = <<>> /\ use_physical = <<>> /\ dataset_path = <<>>
    /\ frame = <<>> /\ im = <<>> /\ reads = <<>>

IdleMain ==
    /\ disk = <<>> /\ stages = <<>> /\ wh = <<>> /\ written = <<>>

\* the locals of sliding_structFunc_opt before a call, or in a behaviour of
\* another program
IdleSliding ==
    /\ dt0 = <<>> /\ dt_max = <<>> /\ N = <<>> /\ target_dts = <<>>
    /\ sqrtD1 = <<>> /\ sigmaD1 = <<>> /\ ave_error = <<>> /\ idx = <<>>
    /\ diffs = <<>> /\ pairs = <<>>

sliding == <<dt0, dt_max, N, target_dts, sqrtD1, sigmaD1, ave_error, idx, diffs,
             pairs>>

vars == <<args, time, value, error, dt0, dt_max, N, target_dts, sqrtD1,
          sigmaD1, ave_error, idx, diffs, pairs, pc, exc, binned, binning, movie,
          mainLocals>>

(***************************************************************************)
(* The pairwise scan of one lag (lines 108-115).                           *)
(***************************************************************************)
\* the (i, j) visited by "for i in range(N): for j in range(i + 1, N)", in order
PairLoop(n) ==
    SelectSeq([k \in 1..(n * n) |-> <<(k - 1) \div n, (k - 1) % n>>],
              LAMBDA p : p[1] + 1 <= p[2])
\* variant: the signed separation, without np.abs
TauSigned(t, p) == t[p[2] + 1] - t[p[1] + 1]

\* tau = np.abs(time[j] - time[i])
Tau(t, p) == Abs(t[p[2] + 1] - t[p[1] + 1])

\* variant: the upper end of the window excluded
InWindowHalfOpen(tau, dt, w) == 2 * dt - w <= 2 * tau /\ 2 * tau < 2 * dt + w

\* dt - dt0/2 <= tau <= dt + dt0/2
InWindow(tau, dt, w) == 2 * dt - w <= 2 * tau /\ 2 * tau <= 2 * dt + w

\* the pairs for which the body of the if runs, in loop order
Contributing(t, n, dt, w) ==
    SelectSeq(PairLoop(n), LAMBDA p : InWindow(Tau(t, p), dt, w))

\* (value[j] - value[i])**2
SqDiff(v, p) ==
    LET d == RSub(v[p[2] + 1], v[p[1] + 1]) IN RMul(d, d)

\* value[j] or value[i] is out of range (IndexError)
OutOfRange(v, p) == p[2] >= Len(v) \/ p[1] >= Len(v)

(***************************************************************************)
(* The steps of the body.                                                  *)
(***************************************************************************)
\* variant: value /= np.mean(value), the quotient written into the array passed
DividedInPlace(passed, quotient) == quotient

\* the array the caller passed as value, after "value = value / np.mean(value)"
\* (line 88): the quotient is a new array to which the local name is rebound,
\* the array passed keeps its elements.  time and error are copied by np.array
\* (lines 87 and 103) before anything is computed from them, and the only
\* item assignments of the body (lines 119-126) are to sqrtD1 and sigmaD1,
\* arrays made by np.zeros
Divided(passed, quotient) == passed

\* variant: the values are used as passed, without the division by their mean
NotNormalized(v) == v

\* value / np.mean(value)  (line 88)
Normalized(v) == DivAll(v, np_mean(v))
\* variant: the default window width is the largest gap
DefaultDt0Largest(t) == np_max(np_diff(np_sort(t)))

\* np.min(np.diff(np.sort(time)))  (line 92), for len(time) >= 2
DefaultDt0(t) == np_min(np_diff(np_sort(t)))

\* np.max(time) - np.min(time)  (line 95), for len(time) >= 1
DefaultDtMax(t) == np_max(t) - np_min(t)

\* variant: the grid stops short of dt_max (no "+ dt0" in the stop value)
LagGridExclusive(L, w) == np_arange(0, L, w)

\* np.arange(0, dt_max + dt0, dt0)  (line 97), for dt0 > 0
LagGrid(L, w) == np_arange(0, L + w, w)
\* variant: the error divided by the sum of the values instead of their mean
NormalizedErrorBySum(e, v) == DivAll(e, SumSeq(v))

\* np.array(error) / np.mean(value)  (line 103), value being the normalized array
NormalizedError(e, v) == DivAll(e, np_mean(v))

\* variant: the sum of the squared differences instead of their mean
SqrtDOfSum(ds) == np_sqrt(SumSeq(ds))

\* D1 = np.mean(diffs); np.sqrt(D1)  (lines 118-119)
SqrtD(ds) == np_sqrt(np_mean(ds))

\* variant: a zero D1 is answered with a zero uncertainty
SigmaSqrtDGuarded(ds, ae) ==
    LET D1 == np_mean(ds)
        sigmaD == np_sqrt(RDiv(RMul(RMul(Q(8), RMul(ae, ae)), D1), Q(Len(ds))))
    IN  IF D1 = Q(0) THEN SZero ELSE SDiv(sigmaD, SScale(2, np_sqrt(D1)))

\* variant: the denominator numberPerBin + 1 of the binned structFunc
SigmaSqrtDPlusOne(ds, ae) ==
    LET D1 == np_mean(ds)
        sigmaD == np_sqrt(RDiv(RMul(RMul(Q(8), RMul(ae, ae)), D1), Q(Len(ds) + 1)))
    IN  SDiv(sigmaD, SScale(2, np_sqrt(D1)))

\* sigmaD = np.sqrt(8 * ave_error**2 * D1 / len(diffs));
\* sigmaD / (2 * np.sqrt(D1))  (lines 121-122)
SigmaSqrtD(ds, ae) ==
    LET D1 == np_mean(ds)
        sigmaD == np_sqrt(RDiv(RMul(RMul(Q(8), RMul(ae, ae)), D1), Q(Len(ds))))
    IN  SDiv(sigmaD, SScale(2, np_sqrt(D1)))

\* variant: a lag without pairs keeps the zero of np.zeros
EmptyBinZero == SZero

\* np.nan, stored for a lag without pairs  (lines 124 and 126)
EmptyBin == SNaN

Raise(e) == pc' = "raised" /\ exc' = e

(***************************************************************************)
(* Lines 87-104: normalization, defaults, the lag grid and the result      *)
(* arrays, the error normalization.  Each raise leaves the locals bound so *)
(* far.  (\E x \in {e} binds x to the value of e, computed once.)          *)
(***************************************************************************)
Setup ==
    /\ pc = "call"
    /\ \E v \in {Normalized(value)} :
       LET n == Len(time)
       IN  /\ value' = v
           /\ N' = n
           /\ IF IsNone(dt0) /\ n < 2
              THEN \* np.min of an empty array
                   /\ Raise("ValueError")
                   /\ UNCHANGED <<dt0, dt_max, target_dts, sqrtD1, sigmaD1,
                                  error, ave_error>>
              ELSE LET w == IF IsNone(dt0) THEN DefaultDt0(time) ELSE Get(dt0)
                   IN  /\ dt0' = Some(w)
                       /\ IF IsNone(dt_max) /\ n = 0
                          THEN \* np.max of an empty array
                               /\ Raise("ValueError")
                               /\ UNCHANGED <<dt_max, target_dts, sqrtD1, sigmaD1,
                                              error, ave_error>>
                          ELSE LET L == IF IsNone(dt_max) THEN DefaultDtMax(time)
                                                          ELSE Get(dt_max)
                               IN  /\ dt_max' = Some(L)
                                   /\ IF w = 0
                                      THEN \* np.arange with a zero step
                                           /\ Raise("ArangeError")
                                           /\ UNCHANGED <<target_dts, sqrtD1, sigmaD1,
                                                          error, ave_error>>
                                      ELSE \E g \in {LagGrid(L, w)} :
                                               /\ target_dts' = g
                                               /\ sqrtD1' = np_zeros(Len(g))
                                               /\ IF IsNone(error)
                                                  THEN /\ sigmaD1' = None
                                                       /\ UNCHANGED <<error, ave_error>>
                                                  ELSE LET e == NormalizedError(Get(error), v)
                                                       IN  /\ sigmaD1' = Some(np_zeros(Len(g)))
                                                           /\ error' = Some(e)
                                                           /\ ave_error' = np_mean(e)
                                               /\ pc' = "loop"
                                               /\ exc' = exc
    /\ args' = [args EXCEPT !.value = Divided(args.value, Normalized(args.value))]
    /\ UNCHANGED <<time, idx, diffs, pairs, binned, binning, movie, mainLocals>>

(***************************************************************************)
(* Lines 107-126: one iteration of the loop over the lags.                 *)
(***************************************************************************)
Bin ==
    /\ pc = "loop"
    /\ idx < Len(target_dts)
    /\ \E cp \in {Contributing(time, N, target_dts[idx + 1], Get(dt0))} :
       LET bad == {k \in 1..Len(cp) : OutOfRange(value, cp[k])}
       IN  IF bad # {}
           THEN \* value[j] past the end of value: the scan stops at the first one
                LET first == CHOOSE k \in bad : \A m \in bad : k <= m
                IN  /\ diffs' = [k \in 1..(first - 1) |-> SqDiff(value, cp[k])]
                    /\ Raise("IndexError")
                    /\ UNCHANGED <<idx, pairs, sqrtD1, sigmaD1>>
           ELSE \E ds \in {[k \in 1..Len(cp) |-> SqDiff(value, cp[k])]} :
                    /\ diffs' = ds
                    /\ pairs' = Append(pairs, cp)
                    /\ idx' = idx + 1
                    /\ IF ds # <<>>
                       THEN /\ sqrtD1' = [sqrtD1 EXCEPT ![idx + 1] = SqrtD(ds)]
                            /\ sigmaD1' = IF IsNone(sigmaD1) THEN None
                                          ELSE Some([Get(sigmaD1) EXCEPT
                                                       ![idx + 1] = SigmaSqrtD(ds, ave_error)])
                       ELSE /\ sqrtD1' = [sqrtD1 EXCEPT ![idx + 1] = EmptyBin]
                            /\ sigmaD1' = IF IsNone(sigmaD1) THEN None
                                          ELSE Some([Get(sigmaD1) EXCEPT ![idx + 1] = EmptyBin])
                    /\ UNCHANGED <<pc, exc>>
    /\ UNCHANGED <<args, time, value, error, dt0, dt_max, N, target_dts, ave_error,
                   binned, binning, movie, mainLocals>>

(***************************************************************************)
(* Line 128: return target_dts, sqrtD1, sigmaD1.                           *)
(***************************************************************************)
Return ==
    /\ pc = "loop"
    /\ idx = Len(target_dts)
    /\ pc' = "returned"
    /\ UNCHANGED <<args, time, value, error, dt0, dt_max, N, target_dts, sqrtD1,
                   sigmaD1, ave_error, idx, diffs, pairs, exc, binned, binning, movie,
                   mainLocals>>

Next == Setup \/ Bin \/ Return

(***************************************************************************)
(* The calls: a time series of up to MaxN samples with stamps in 0..MaxT,  *)
(* in any order and with ties; value and error arrays of the same length   *)
(* or one off; dt0 and dt_max given or left to their defaults.             *)
(***************************************************************************)
Lens(n) == {m \in {n - 1, n, n + 1} : m >= 0}

TimeSeries == UNION {[1..n -> 0..MaxT] : n \in 0..MaxN}

Arrays(S, n) == {[i \in 1..n |-> Q(a[i])] : a \in [1..n -> S]}

\* the error enters only through np.mean(error): one order per multiset
ErrorArrays(n) ==
    {e \in Arrays(ErrorValues, n) : \A i \in 1..(n - 1) : e[i][1] <= e[i + 1][1]}

\* an error array whose length is one off
OnesArray(n) == [i \in 1..n |-> Q(1)]

Entry(a) ==
    /\ args = a
    /\ time = a.time
    /\ value = a.value
    /\ error = a.error
    /\ dt0 = a.dt0
    /\ dt_max = a.dt_max
    /\ N = 0
    /\ target_dts = <<>>
    /\ sqrtD1 = <<>>
    /\ sigmaD1 = None
    /\ ave_error = NaN
    /\ idx = 0
    /\ diffs = <<>>
    /\ pairs = <<>>
    /\ pc = "call"
    /\ exc = ""
    /\ IdleBinned /\ IdleBinning /\ IdleMovie /\ IdleMain

\* the error arrays passed with a value array of length m for n time stamps:
\* the lengths agree, or exactly one of value and error is one off
ErrorChoices(n, m) ==
    IF m # n THEN {None}
    ELSE {None} \cup {Some(x) : x \in ErrorArrays(n)}
                \cup {Some(OnesArray(k)) : k \in Lens(n)}

Init ==
    \E t \in TimeSeries :
      \E m \in Lens(Len(t)) :
        \E v \in Arrays(FluxValues, m), e \in ErrorChoices(Len(t), m),
           w \in {None} \cup {Some(x) : x \in WindowWidths},
           L \in {None} \cup {Some(x) : x \in 0..MaxT} :
          Entry([time |-> t, value |-> v, error |-> e, dt0 |-> w, dt_max |-> L])

Spec == Init /\ [][Next]_vars

(***************************************************************************)
(* The known scenario of the specification: four samples at times 0, 1, 2, *)
(* 3, dt0 = 1 and dt_max = 3, with every flux series over FluxValues and   *)
(* with or without an error array.                                         *)
(***************************************************************************)
InitKnown ==
    \E v \in Arrays(FluxValues, 4),
       e \in {None} \cup {Some(x) : x \in ErrorArrays(4)} :
      Entry([time |-> <<0, 1, 2, 3>>, value |-> v, error |-> e,
             dt0 |-> Some(1), dt_max |-> Some(3)])

SpecKnown == InitKnown /\ [][Next]_vars

(***************************************************************************)
(* Vocabulary of the properties, written from the statements and not from  *)
(* the loops of the code: unordered pairs of sample indices, the window of *)
(* lag bin k as an interval of rationals, sums over sets.                  *)
(***************************************************************************)
UnorderedPairs(n) == {p \in SUBSET (0..(n - 1)) : Cardinality(p) = 2}

\* |t_j - t_i| of the unordered pair p = {i, j}
Separation(t, p) ==
    LET i == CHOOSE x \in p : TRUE
        j == CHOOSE x \in p \ {i} : TRUE
    IN  Abs(t[j + 1] - t[i + 1])

\* the unordered pairs with w*k - w/2 <= |t_j - t_i| <= w*k + w/2
WindowPairs(t, w, k) ==
    {p \in UnorderedPairs(Len(t)) :
        /\ RLe(RSub(Q(w * k), Rat(w, 2)), Q(Separation(t, p)))
        /\ RLe(Q(Separation(t, p)), RAdd(Q(w * k), Rat(w, 2)))}

\* the index pairs of a scan, as unordered pairs
AsSet(ps) == {{ps[m][1], ps[m][2]} : m \in 1..Len(ps)}

RECURSIVE SumOver(_, _)
SumOver(f, S) ==
    IF S = {} THEN Q(0)
    ELSE LET a == CHOOSE a \in S : TRUE IN RAdd(f[a], SumOver(f, S \ {a}))

\* the mean of the array v, and v divided by its own mean
MeanOf(v) == RDiv(SumOver(v, DOMAIN v), Q(Len(v)))
Fractional(v) == [i \in DOMAIN v |-> RDiv(v[i], MeanOf(v))]

\* the mean over the pairs P of (x_j - x_i)^2
MeanSquare(x, P) ==
    LET sq == [p \in P |->
                 LET i == CHOOSE a \in p : TRUE
                     j == CHOOSE a \in p \ {i} : TRUE
                     d == RSub(x[j + 1], x[i + 1])
                 IN  RMul(d, d)]
    IN  RDiv(SumOver(sq, P), Q(Cardinality(P)))

\* the square of a surd
Square(x) == IF SIsNaN(x) THEN NaN ELSE IF x[1] = 0 THEN Q(0) ELSE x[2]

\* the lags whose scan is finished
Finished == 1..Len(pairs)

GridBuilt == pc \in {"loop", "returned"}

(***************************************************************************)
(* C1.  For every lag bin k of the grid the contributing pairs are exactly *)
(* the unordered sample pairs {i, j}, i # j, with                          *)
(* windowWidth*k - windowWidth/2 <= |t_j - t_i| <= windowWidth*k +         *)
(* windowWidth/2, both ends inclusive; each is counted once (the number of *)
(* collected differences is the number of such pairs) and no other pair is *)
(* counted.                                                                *)
(***************************************************************************)
C1_ContributingPairs ==
    /\ \A k \in Finished :
         \A P \in {WindowPairs(args.time, Get(dt0), k - 1)} :
             /\ AsSet(pairs[k]) = P
             /\ Len(pairs[k]) = Cardinality(P)
    /\ (pc # "raised" /\ idx >= 1) =>
         Len(diffs) = Cardinality(WindowPairs(args.time, Get(dt0), idx - 1))

\* a returned call in which one bin holds two or more pairs, one of them at
\* the upper end of the window exactly, and leaves another pair out
C1_Witness ==
    /\ pc = "returned"
    /\ \E k \in Finished :
         /\ Len(pairs[k]) >= 2
         /\ Len(pairs[k]) < Cardinality(UnorderedPairs(N))
         /\ \E m \in 1..Len(pairs[k]) :
              2 * Tau(time, pairs[k][m]) = 2 * target_dts[k] + Get(dt0)

(***************************************************************************)
(* C2.  For every lag bin with at least one contributing pair the reported *)
(* value is the non-negative square root of D, the arithmetic mean over    *)
(* the bin's pairs of (x_j - x_i)^2 with x the value array divided by its  *)
(* own mean; in particular it is >= 0.                                     *)
(***************************************************************************)
C2_SqrtOfMeanSquare ==
    \A k \in Finished :
      \A P \in {WindowPairs(args.time, Get(dt0), k - 1)} :
          P # {} =>
            /\ ~SIsNaN(sqrtD1[k])
            /\ sqrtD1[k][1] >= 0
            /\ Square(sqrtD1[k]) = MeanSquare(Fractional(args.value), P)

\* a bin just scanned that holds pairs with different squared differences
\* and a positive sqrt(D)
C2_Witness ==
    /\ pc = "loop"
    /\ idx >= 1
    /\ Len(diffs) >= 2
    /\ \E a, b \in 1..Len(diffs) : diffs[a] # diffs[b]
    /\ sqrtD1[idx][1] = 1

C4_EmptyBinsAreNaN ==
    /\ \A k \in Finished :
         WindowPairs(args.time, Get(dt0), k - 1) = {} =>
           /\ sqrtD1[k] = SNaN
           /\ ~IsNone(args.error) => Get(sigmaD1)[k] = SNaN
    /\ (pc = "raised" /\ exc = "IndexError") =>
         WindowPairs(args.time, Get(dt0), idx) # {}
    /\ GridBuilt =>
         /\ Len(sqrtD1) = Len(target_dts)
         /\ IsNone(sigmaD1) <=> IsNone(args.error)
         /\ ~IsNone(sigmaD1) => Len(Get(sigmaD1)) = Len(target_dts)
         /\ \A i \in 1..(Len(target_dts) - 1) : target_dts[i] < target_dts[i + 1]
    /\ pc = "returned" => Len(pairs) = Len(target_dts)

\* a returned call with error supplied, an empty bin and a bin with pairs
C4_Witness ==
    /\ pc = "returned"
    /\ ~IsNone(sigmaD1)
    /\ \E k \in Finished : pairs[k] = <<>> /\ Get(sigmaD1)[k] = SNaN
    /\ \E k \in Finished : pairs[k] # <<>> /\ ~SIsNaN(sqrtD1[k])

\* the lengths of time, value and (if supplied) error agree
SameLengths ==
    /\ Len(args.value) = Len(args.time)
    /\ IsNone(args.error) \/ Len(Get(args.error)) = Len(args.time)

(***************************************************************************)
(* C5.  A call with time, value or error sequences of different lengths    *)
(* fails with an input error and returns no result, whether value or error *)
(* is shorter or longer than time.  Stated for series that are otherwise   *)
(* valid (N >= 2).                                                         *)
(***************************************************************************)
C5_MismatchedLengthsFail ==
    (Len(args.time) >= 2 /\ ~SameLengths) => pc # "returned"

(***************************************************************************)
(* C6.  A call with fewer than two samples fails with an input error and   *)
(* returns no result, whether or not windowWidth and maxLag are supplied.  *)
(* Stated for arrays of equal lengths.                                     *)
(***************************************************************************)
C6_ShortSeriesFail ==
    (Len(args.time) < 2 /\ SameLengths) => pc # "returned"

\* the positive separations between two time samples
PositiveGaps(t) ==
    {Abs(t[i] - t[j]) : i, j \in 1..Len(t)} \ {0}

(***************************************************************************)
(* C7.  With windowWidth omitted the estimator uses the smallest positive  *)
(* gap between two time samples; for a series with duplicate time stamps   *)
(* the derived windowWidth is still strictly positive and the lag grid is  *)
(* well defined.  Stated for arrays of equal lengths with two stamps that  *)
(* differ.                                                                 *)
(***************************************************************************)
C7_DefaultWidthIsSmallestPositiveGap ==
    (IsNone(args.dt0) /\ SameLengths /\ pc # "call" /\ PositiveGaps(args.time) # {}) =>
      /\ ~IsNone(dt0)
      /\ Get(dt0) > 0
      /\ \A g \in PositiveGaps(args.time) : Get(dt0) <= g
      /\ Get(dt0) \in PositiveGaps(args.time)
      /\ exc # "ArangeError"

(***************************************************************************)
(* C8.  For a bin whose contributing pairs all have equal values (as the   *)
(* bin of lag 1 of time = [0, 1], value = [1, 1]) the estimator reports    *)
(* D = 0 and sqrt(D) = 0, and with error supplied the uncertainty of that  *)
(* bin is a defined value, NaN or +infinity: no numeric exception leaves   *)
(* the function.                                                           *)
(***************************************************************************)
C8_ZeroStructureFunction ==
    /\ \A k \in Finished :
         \A P \in {WindowPairs(args.time, Get(dt0), k - 1)} :
           (P # {} /\ \A p \in P : \A i, j \in p : args.value[i + 1] = args.value[j + 1]) =>
             /\ sqrtD1[k] = SZero
             /\ ~IsNone(args.error) => Get(sigmaD1)[k] \in {SNaN, <<1, <<1, 0>>>>}
    /\ exc \in {"", "ValueError", "ArangeError", "IndexError"}
    /\ exc = "IndexError" => Len(args.value) < Len(args.time)

\* the two-point series with error supplied and the defaults: lag 1 gives 0
\* and an uncertainty that is NaN
C8_Witness ==
    /\ pc = "returned"
    /\ args.time = <<0, 1>>
    /\ args.value = <<Q(1), Q(1)>>
    /\ ~IsNone(args.error)
    /\ IsNone(args.dt0) /\ IsNone(args.dt_max)
    /\ target_dts = <<0, 1>>
    /\ pairs[2] = <<<<0, 1>>>>
    /\ sqrtD1[2] = SZero
    /\ Get(sigmaD1)[2] = SNaN

(***************************************************************************)
(* C9.  With error supplied, for every non-empty bin with D > 0 the        *)
(* uncertainty is sigma_D / (2*sqrt(D)) with                               *)
(* sigma_D = sqrt(8 * meanError^2 * D / M), M the number of pairs of that  *)
(* bin and meanError the mean of the normalized error array; equivalently  *)
(* uncertainty^2 = 2 * meanError^2 / M.                                    *)
(***************************************************************************)
C9_Uncertainty ==
    ~IsNone(args.error) =>
      \A x \in {Fractional(args.value)} :
        \A meanError \in {RDiv(MeanOf(Get(args.error)), MeanOf(x))} :
          \A k \in Finished :
            \A P \in {WindowPairs(args.time, Get(dt0), k - 1)} :
              P # {} =>
                \A D \in {MeanSquare(x, P)} :
                  LET M == Cardinality(P)
                      sigmaD2 == RDiv(RMul(RMul(Q(8), RMul(meanError, meanError)), D), Q(M))
                      u == Get(sigmaD1)[k]
                  IN  D # Q(0) =>
                        /\ ~SIsNaN(u)
                        /\ u[1] >= 0
                        /\ RMul(Square(u), RMul(Q(4), D)) = sigmaD2
                        /\ Square(u) = RDiv(RMul(Q(2), RMul(meanError, meanError)), Q(M))

\* a bin of two or more pairs with D > 0 and errors that are not all equal
C9_Witness ==
    /\ pc = "loop"
    /\ idx >= 1
    /\ ~IsNone(args.error)
    /\ \E a, b \in 1..Len(Get(args.error)) : Get(args.error)[a] # Get(args.error)[b]
    /\ Len(diffs) >= 2
    /\ sqrtD1[idx][1] = 1
    /\ Get(sigmaD1)[idx][1] = 1

(***************************************************************************)
(* C10.  For time = [0,1,2,3], value = [1,2,1,2], windowWidth = 1 and      *)
(* maxLag = 3 the lag grid is [0,1,2,3], the pairs contributing at lag 1   *)
(* are exactly (0,1), (1,2), (2,3), D(1) = 4/9 and sqrt(D(1)) = 2/3.       *)
(***************************************************************************)
C10_KnownScenario ==
    (/\ args.time = <<0, 1, 2, 3>>
     /\ args.value = <<Q(1), Q(2), Q(1), Q(2)>>
     /\ args.dt0 = Some(1)
     /\ args.dt_max = Some(3)) =>
      /\ pc # "raised"
      /\ GridBuilt => target_dts = <<0, 1, 2, 3>>
      /\ idx = 2 => np_mean(diffs) = Rat(4, 9)
      /\ idx >= 2 =>
           /\ AsSet(pairs[2]) = {{0, 1}, {1, 2}, {2, 3}}
           /\ Len(pairs[2]) = 3
           /\ sqrtD1[2][1] = 1
           /\ Square(sqrtD1[2]) = RMul(Rat(2, 3), Rat(2, 3))
      /\ pc = "returned" => idx = 4

\* the scenario's call has returned
C10_Witness ==
    /\ pc = "returned"
    /\ args.value = <<Q(1), Q(2), Q(1), Q(2)>>
    /\ args.time = <<0, 1, 2, 3>>
    /\ sqrtD1[2] = <<1, Rat(4, 9)>>

(***************************************************************************)
(* The whole call as a function of its arguments (lines 52-128): what the  *)
(* steps Setup, Bin and Return compute, composed.  A call ends "returned"  *)
(* with its three outputs or "raised" with its exception.                  *)
(***************************************************************************)
Raised(e) ==
    [pc |-> "raised", exc |-> e, target_dts |-> <<>>, sqrtD1 |-> <<>>,
     sigmaD1 |-> None]

\* the squared differences of the contributing pairs cp, in loop order
Diffs(v, cp) == [k \in 1..Len(cp) |-> SqDiff(v, cp[k])]

\* lines 107-128 for the grid g: v is the normalized value, e the (optional)
\* normalized error
LagLoop(t, v, e, w, g) ==
    LET cps == [k \in 1..Len(g) |-> Contributing(t, Len(t), g[k], w)]
    IN  IF \E k \in 1..Len(g) : \E m \in 1..Len(cps[k]) : OutOfRange(v, cps[k][m])
        THEN Raised("IndexError")
        ELSE [pc |-> "returned", exc |-> "", target_dts |-> g,
              sqrtD1 |-> [k \in 1..Len(g) |->
                            IF cps[k] # <<>> THEN SqrtD(Diffs(v, cps[k]))
                                             ELSE EmptyBin],
              sigmaD1 |-> IF IsNone(e) THEN None
                          ELSE Some([k \in 1..Len(g) |->
                                 IF cps[k] # <<>>
                                 THEN SigmaSqrtD(Diffs(v, cps[k]), np_mean(Get(e)))
                                 ELSE EmptyBin])]

sliding_structFunc_opt(t, v0, e0, w0, L0) ==
    IF IsNone(w0) /\ Len(t) < 2 THEN Raised("ValueError")
    ELSE IF IsNone(L0) /\ Len(t) = 0 THEN Raised("ValueError")
    ELSE LET w == IF IsNone(w0) THEN DefaultDt0(t) ELSE Get(w0)
             L == IF IsNone(L0) THEN DefaultDtMax(t) ELSE Get(L0)
             v == Normalized(v0)
         IN  IF w = 0 THEN Raised("ArangeError")
             ELSE LagLoop(t, v,
                          IF IsNone(e0) THEN None
                                        ELSE Some(NormalizedError(Get(e0), v)),
                          w, LagGrid(L, w))

\* the outcome of the call in progress, once it has ended
Outcome ==
    IF pc = "returned"
    THEN [pc |-> pc, exc |-> exc, target_dts |-> target_dts, sqrtD1 |-> sqrtD1,
          sigmaD1 |-> sigmaD1]
    ELSE Raised(exc)

Ended == pc \in {"returned", "raised"}

\* the array s in reverse order
Reverse(s) == [i \in 1..Len(s) |-> s[Len(s) + 1 - i]]
ReverseOpt(o) == IF IsNone(o) THEN None ELSE Some(Reverse(Get(o)))

\* the array v with every entry multiplied by the integer c
Scaled(v, c) == [i \in 1..Len(v) |-> RMul(Q(c), v[i])]

(***************************************************************************)
(* C11.  For time, value and error arrays of equal lengths, the call with  *)
(* the three arrays reversed together ends as the call itself: the same    *)
(* lag grid, the same sqrt(D) per lag (NaN at the same lags) and the same  *)
(* uncertainty per lag, or the same exception; dt0 and dt_max are passed   *)
(* on as they are, given or left to their defaults.                        *)
(***************************************************************************)
C11_ReversalSymmetry ==
    (Ended /\ SameLengths) =>
        sliding_structFunc_opt(Reverse(args.time), Reverse(args.value),
                               ReverseOpt(args.error), args.dt0, args.dt_max)
          = Outcome

\* a returned call on a series that its reversal changes, with the defaults
\* and an error array, and a lag with pairs next to a lag without
C11_Witness ==
    /\ pc = "returned"
    /\ SameLengths
    /\ Reverse(args.time) # args.time
    /\ Reverse(args.value) # args.value
    /\ ~IsNone(args.error) /\ Reverse(Get(args.error)) # Get(args.error)
    /\ IsNone(args.dt0) /\ IsNone(args.dt_max)
    /\ \E k \in 1..Len(sqrtD1) : SIsNaN(sqrtD1[k])
    /\ \E k \in 1..Len(sqrtD1) : ~SIsNaN(sqrtD1[k]) /\ sqrtD1[k] # SZero

\* the positive constants the passed values are multiplied by
Scales == {2, 3}

(***************************************************************************)
(* C12.  The values used in the pairwise differences are the passed values *)
(* divided by the mean of the passed values themselves, the mean being     *)
(* taken before the division: x_i = value_i / mean(value).  The outputs    *)
(* therefore do not change when every passed value is multiplied by the    *)
(* same positive constant (the other arguments unchanged).                 *)
(***************************************************************************)
C12_NormalizedByOwnMean ==
    /\ pc # "call" => value = Fractional(args.value)
    /\ Ended =>
         \A c \in Scales :
            sliding_structFunc_opt(args.time, Scaled(args.value, c), args.error,
                                   args.dt0, args.dt_max)
              = Outcome

\* a returned call whose values are not all equal and whose mean is not 1,
\* with a positive sqrt(D) and a positive uncertainty
C12_Witness ==
    /\ pc = "returned"
    /\ SameLengths
    /\ MeanOf(args.value) # Q(1)
    /\ value # args.value
    /\ \E k \in 1..Len(sqrtD1) : ~SIsNaN(sqrtD1[k]) /\ sqrtD1[k] # SZero
    /\ ~IsNone(sigmaD1)
    /\ \E k \in 1..Len(sqrtD1) :
          ~SIsNaN(Get(sigmaD1)[k]) /\ Get(sigmaD1)[k] # SZero

(***************************************************************************)
(* C13.  When an error array is passed, it is divided by the mean of the   *)
(* normalized value array, not by the mean of the raw values: the mean     *)
(* error of the uncertainty formula is the mean of the raw errors divided  *)
(* by the mean of value / mean(value); it differs from the mean of the raw *)
(* errors divided by the raw value mean whenever that mean is not 1, and   *)
(* multiplying the raw values by a constant does not change it.            *)
(***************************************************************************)
C13_ErrorOverNormalizedMean ==
    (GridBuilt /\ ~IsNone(args.error)) =>
        \A post \in {MeanOf(Fractional(args.value))} :
           /\ error = Some([i \in 1..Len(Get(args.error)) |->
                               RDiv(Get(args.error)[i], post)])
           /\ ave_error = RDiv(MeanOf(Get(args.error)), post)
           /\ (IsFinite(ave_error) /\ MeanOf(args.value) # Q(1)) =>
                 ave_error # RDiv(MeanOf(Get(args.error)), MeanOf(args.value))
           /\ \A c \in Scales :
                 np_mean(NormalizedError(Get(args.error),
                                         Normalized(Scaled(args.value, c))))
                   = ave_error

\* a returned call with an error array and raw values whose mean is not 1,
\* the mean error having entered a finite uncertainty
C13_Witness ==
    /\ pc = "returned"
    /\ ~IsNone(args.error)
    /\ Len(Get(args.error)) = Len(args.time)
    /\ MeanOf(args.value) # Q(1)
    /\ IsFinite(ave_error)
    /\ \E k \in 1..Len(target_dts) :
          ~SIsNaN(Get(sigmaD1)[k]) /\ Get(sigmaD1)[k] # SZero

(***************************************************************************)
(* structFunc, the binned estimator                                        *)
(* ("src/GRMHD Variability/Simulations/detrend_structure_frac.py").        *)
(* An nbins argument is [kind |-> "number", n |-> n] for an integer n or   *)
(* [kind |-> "edges", edges |-> e] for an array e of increasing edges.     *)
(***************************************************************************)
\* the module-level NumberofBins  (line 49)
NumberofBins == 64

\* np.linspace(lo, hi, num) for num >= 2
np_linspace(lo, hi, num) ==
    [k \in 1..num |-> RAdd(lo, RDiv(RMul(Q(k - 1), RSub(hi, lo)), Q(num - 1)))]

\* a[mask]: the elements of a at the positions where mask is true
Where(a, mask) ==
    LET ix == SelectSeq([k \in 1..Len(a) |-> k], LAMBDA k : mask[k])
    IN  [m \in 1..Len(ix) |-> a[ix[m]]]

\* the (ipt, jpt) visited by "for ipt in np.arange(Npoints): for jpt in
\* np.arange(ipt)", in order  (lines 70-71)
LowerPairs(n) ==
    SelectSeq([k \in 1..(n * n) |-> <<(k - 1) \div n, (k - 1) % n>>],
              LAMBDA p : p[2] < p[1])

\* tauij = time[ipt] - time[jpt]  (line 72)
LagOf(t, p) == t[p[1] + 1] - t[p[2] + 1]

\* diff2ij = (value[ipt] - value[jpt]) * (value[ipt] - value[jpt])  (line 74)
Diff2Of(v, p) ==
    LET d == RSub(v[p[1] + 1], v[p[2] + 1]) IN RMul(d, d)

\* scipy.stats.binned_statistic, the edges: for a number of bins, that many
\* equal bins from the smallest to the largest sample (widened by 1/2 on
\* both sides when the two are equal); for an array, the array
EdgesOf(x, b) ==
    IF b.kind = "edges" THEN b.edges
    ELSE LET smin == np_min(x)
             smax == np_max(x)
         IN  IF smin = smax
             THEN np_linspace(Rat(2 * smin - 1, 2), Rat(2 * smax + 1, 2), b.n + 1)
             ELSE np_linspace(Q(smin), Q(smax), b.n + 1)

\* np.digitize(x, edges) for increasing edges: the i with
\* edges[i-1] <= x < edges[i], 0 below the first and len(edges) from the last on
Digitize(x, edges) == Cardinality({k \in 1..Len(edges) : RLe(edges[k], x)})

\* variant: bin numbers counted from 0
BinNumberFromZero(x, edges) ==
    (IF x = edges[Len(edges)] THEN Digitize(x, edges) - 1 ELSE Digitize(x, edges)) - 1

\* scipy.stats.binned_statistic, the bin number of a sample: np.digitize, a
\* sample on the last edge being moved into the last bin.  Bins are numbered
\* from 1; 0 and len(edges) are the samples below and above the range
BinNumber(x, edges) ==
    IF x = edges[Len(edges)] THEN Digitize(x, edges) - 1 ELSE Digitize(x, edges)

\* scipy.stats.binned_statistic, statistic='mean': per bin the sum of the
\* values of its samples over their number, NaN for a bin without samples
BinMeans(vals, numbers, nb) ==
    [b \in 1..nb |->
        LET mine == Where(vals, [k \in 1..Len(vals) |-> numbers[k] = b])
        IN  IF mine = <<>> THEN NaN ELSE RDiv(SumSeq(mine), Q(Len(mine)))]

\* bin_edges[1:] - bin_width/2 with bin_width = bin_edges[1] - bin_edges[0]
\* (lines 80-81)
BinCentres(edges) ==
    LET bin_width == RSub(edges[2], edges[1])
    IN  [k \in 1..(Len(edges) - 1) |-> RSub(edges[k + 1], RDiv(bin_width, Q(2)))]

\* np.size(binnumber[binnumber == index])  (line 85)
CountOf(numbers, index) ==
    Cardinality({k \in 1..Len(numbers) : numbers[k] = index})

\* numpy broadcasting of two 1-d arrays of lengths a and b
Broadcastable(a, b) == a = b \/ a = 1 \/ b = 1
BroadcastLen(a, b) == IF a = 1 THEN b ELSE a
At(a, k) == IF Len(a) = 1 THEN a[1] ELSE a[k]

\* one element of sigmaD = np.sqrt(8.*aveerror*aveerror*D1/(numberPerBin+1))
\* and of sigmaSQRTD = sigmaD/2./np.sqrt(D1)  (lines 88-89)
SigmaOfBin(ae, D, n) ==
    SDiv(SDiv(np_sqrt(RDiv(RMul(RMul(RMul(Q(8), ae), ae), D), Q(n + 1))),
              <<1, Q(4)>>),
         np_sqrt(D))

\* variant: every bin is returned
ConditionAll(D) == [k \in 1..Len(D) |-> TRUE]

\* condition = ~np.isnan(D1)  (line 92)
Condition(D) == [k \in 1..Len(D) |-> ~IsNaN(D[k])]

\* what structFunc leaves alone: the caller's arrays and the other programs
OutsideBinned == <<args, time, sliding, binning, movie, mainLocals>>

(***************************************************************************)
(* Lines 61-66: the size, the two normalizations (the error is divided by  *)
(* the mean of the raw value array, before value is rebound) and the mean  *)
(* error.  sigma = np.std(value) is never read.                            *)
(***************************************************************************)
Normalize ==
    /\ pc = "structFunc"
    /\ Npoints' = Len(time)
    /\ \E e \in {DivAll(error, np_mean(value))} :
          /\ error' = e
          /\ aveerror' = np_mean(e)
    /\ value' = DivAll(value, np_mean(value))
    /\ pc' = "pairs"
    /\ UNCHANGED <<nbins, taus, diff2, bin_means, bin_edges, binnumber, bin_centers,
                   numberPerBin, sigmaSQRTD, result, exc>>
    /\ UNCHANGED OutsideBinned

(***************************************************************************)
(* Lines 68-77: the double loop over the pairs, then taumax = np.amax(tau) *)
(* (never read), which raises ValueError when there is no pair.            *)
(***************************************************************************)
PairScan ==
    /\ pc = "pairs"
    /\ \E ps \in {LowerPairs(Npoints)} :
          /\ taus' = [k \in 1..Len(ps) |-> LagOf(time, ps[k])]
          /\ diff2' = [k \in 1..Len(ps) |-> Diff2Of(value, ps[k])]
          /\ IF ps = <<>>
             THEN Raise("ValueError")
             ELSE pc' = "bin" /\ exc' = exc
    /\ UNCHANGED <<nbins, Npoints, aveerror, value, error, bin_means, bin_edges,
                   binnumber, bin_centers, numberPerBin, sigmaSQRTD, result>>
    /\ UNCHANGED OutsideBinned

(***************************************************************************)
(* Lines 79-81: stats.binned_statistic(tau, diff2, 'mean', bins=nbins) and *)
(* the bin centres.                                                        *)
(***************************************************************************)
BinnedStatistic ==
    /\ pc = "bin"
    /\ \E edges \in {EdgesOf(taus, nbins)} :
       \E numbers \in {[k \in 1..Len(taus) |-> BinNumber(Q(taus[k]), edges)]} :
          /\ bin_edges' = edges
          /\ binnumber' = numbers
          /\ bin_means' = BinMeans(diff2, numbers, Len(edges) - 1)
          /\ bin_centers' = BinCentres(edges)
    /\ pc' = "count"
    /\ UNCHANGED <<nbins, Npoints, aveerror, value, error, taus, diff2,
                   numberPerBin, sigmaSQRTD, result, exc>>
    /\ UNCHANGED OutsideBinned

(***************************************************************************)
(* Lines 83-85: numberPerBin, one entry per index below NumberofBins.      *)
(***************************************************************************)
CountPerBin ==
    /\ pc = "count"
    /\ numberPerBin' = [k \in 1..NumberofBins |-> CountOf(binnumber, k - 1)]
    /\ pc' = "sigma"
    /\ UNCHANGED <<nbins, Npoints, aveerror, value, error, taus, diff2, bin_means,
                   bin_edges, binnumber, bin_centers, sigmaSQRTD, result, exc>>
    /\ UNCHANGED OutsideBinned

(***************************************************************************)
(* Lines 87-89: the uncertainty, element by element.  D1 (one entry per    *)
(* bin) and numberPerBin (NumberofBins entries) must broadcast, or numpy   *)
(* raises ValueError.                                                      *)
(***************************************************************************)
Uncertainty ==
    /\ pc = "sigma"
    /\ IF ~Broadcastable(Len(bin_means), Len(numberPerBin))
       THEN /\ Raise("ValueError")
            /\ UNCHANGED sigmaSQRTD
       ELSE /\ sigmaSQRTD' =
                 [k \in 1..BroadcastLen(Len(bin_means), Len(numberPerBin)) |->
                     SigmaOfBin(aveerror, At(bin_means, k), At(numberPerBin, k))]
            /\ pc' = "select"
            /\ exc' = exc
    /\ UNCHANGED <<nbins, Npoints, aveerror, value, error, taus, diff2, bin_means,
                   bin_edges, binnumber, bin_centers, numberPerBin, result>>
    /\ UNCHANGED OutsideBinned

(***************************************************************************)
(* Lines 92-93: the bins whose mean is not NaN are returned.  A boolean    *)
(* index of another length than the array it indexes raises IndexError.    *)
(***************************************************************************)
Select ==
    /\ pc = "select"
    /\ \E condition \in {Condition(bin_means)} :
          IF Len(sigmaSQRTD) # Len(condition)
          THEN /\ Raise("IndexError")
               /\ UNCHANGED result
          ELSE /\ result' =
                    <<Where(bin_centers, condition),
                      [k \in 1..Len(Where(bin_means, condition)) |->
                          np_sqrt(Where(bin_means, condition)[k])],
                      Where(sigmaSQRTD, condition)>>
               /\ pc' = "returned"
               /\ exc' = exc
    /\ UNCHANGED <<nbins, Npoints, aveerror, value, error, taus, diff2, bin_means,
                   bin_edges, binnumber, bin_centers, numberPerBin, sigmaSQRTD>>
    /\ UNCHANGED OutsideBinned

NextBinned ==
    Normalize \/ PairScan \/ BinnedStatistic \/ CountPerBin \/ Uncertainty \/ Select

(***************************************************************************)
(* The calls of structFunc: time, value and error arrays of one length, up *)
(* to MaxN samples with stamps in 0..MaxT in any order, and an nbins that  *)
(* is a number of bins or an array of equally spaced edges starting at 0.  *)
(***************************************************************************)
\* the numbers of bins passed
BinCounts == {1, 2, NumberofBins - 1, NumberofBins}

\* the last edge of the arrays of NumberofBins + 1 edges passed: bins of
\* width 1/32, 1/2 and 1
EdgeSpans == {2, NumberofBins \div 2, NumberofBins}

BinChoices ==
    {[kind |-> "number", n |-> n] : n \in BinCounts}
    \cup {[kind |-> "edges", edges |-> np_linspace(Q(0), Q(h), NumberofBins + 1)] :
             h \in EdgeSpans}
    \cup {[kind |-> "edges", edges |-> np_linspace(Q(0), Q(MaxT + 1), n + 1)] :
             n \in {1, 2}}

InitBinned ==
    \E t \in TimeSeries :
      \E v \in Arrays(FluxValues, Len(t)), e \in ErrorArrays(Len(t)),
         b \in BinChoices :
        /\ args = [time |-> t, value |-> v, error |-> e, nbins |-> b]
        /\ time = t
        /\ value = v
        /\ error = e
        /\ nbins = b
        /\ Npoints = <<>> /\ aveerror = <<>> /\ taus = <<>> /\ diff2 = <<>>
        /\ bin_means = <<>> /\ bin_edges = <<>> /\ binnumber = <<>>
        /\ bin_centers = <<>> /\ numberPerBin = <<>> /\ sigmaSQRTD = <<>>
        /\ result = <<>>
        /\ pc = "structFunc"
        /\ exc = ""
        /\ IdleSliding /\ IdleBinning /\ IdleMovie /\ IdleMain

SpecBinned == InitBinned /\ [][NextBinned]_vars

(***************************************************************************)
(* Vocabulary of the properties of structFunc, written from the statements *)
(* and not from the calls of the code: the pairs (i, j) with j < i, their  *)
(* lags, the bin range cut into equal bins, the pairs of a bin.            *)
(***************************************************************************)
OrderedPairs(n) == {p \in (0..(n - 1)) \X (0..(n - 1)) : p[2] < p[1]}

\* t_i - t_j of the pair p = (i, j)
LagOfPair(t, p) == t[p[1] + 1] - t[p[2] + 1]

\* the number of bins that nbins stands for
NumberOfBins(b) == IF b.kind = "number" THEN b.n ELSE Len(b.edges) - 1

\* twice a rational that is a multiple of 1/2, as an integer
Twice(q) == (2 * q[1]) \div q[2]

\* the bin range, as the integers <<2 * lo, 2 * hi>>: from the first to the
\* last edge passed, or from the smallest to the largest lag (half a unit
\* more on both sides when the two are equal)
BinRange(t, b) ==
    IF b.kind = "edges" THEN <<Twice(b.edges[1]), Twice(b.edges[Len(b.edges)])>>
    ELSE LET lags == {LagOfPair(t, p) : p \in OrderedPairs(Len(t))}
             lo == CHOOSE x \in lags : \A y \in lags : x <= y
             hi == CHOOSE x \in lags : \A y \in lags : x >= y
         IN  IF lo = hi THEN <<2 * lo - 1, 2 * hi + 1>> ELSE <<2 * lo, 2 * hi>>

RLt(a, b) == RLe(a, b) /\ a # b

\* the lag x lies in bin k of the nb equal bins of the range R, that is
\*   lo + (k - 1) * (hi - lo) / nb <= x < lo + k * (hi - lo) / nb,
\* the last bin taking x = hi as well; both sides multiplied by 2 * nb
LagInBin(x, R, nb, k) ==
    /\ (k - 1) * (R[2] - R[1]) <= (2 * x - R[1]) * nb
    /\ (2 * x - R[1]) * nb < k * (R[2] - R[1]) \/ (k = nb /\ 2 * x = R[2])

\* the pairs of bin k
PairsOfBin(t, R, nb, k) ==
    {p \in OrderedPairs(Len(t)) : LagInBin(LagOfPair(t, p), R, nb, k)}

\* the mean over the pairs P of (x_i - x_j)^2
MeanSquareOf(x, P) ==
    LET sq == [p \in P |->
                 LET d == RSub(x[p[1] + 1], x[p[2] + 1]) IN RMul(d, d)]
    IN  RDiv(SumOver(sq, P), Q(Cardinality(P)))

\* the centre of bin k: lo + (k - 1/2) * (hi - lo) / nb
CentreOfBin(R, nb, k) == Rat(2 * R[1] * nb + (2 * k - 1) * (R[2] - R[1]), 4 * nb)

\* the bins with at least one pair, in increasing order
RECURSIVE Ascending(_)
Ascending(S) ==
    IF S = {} THEN <<>>
    ELSE LET m == CHOOSE x \in S : \A y \in S : x <= y
         IN  <<m>> \o Ascending(S \ {m})
NonEmptyBins(t, R, nb) ==
    Ascending({k \in 1..nb : PairsOfBin(t, R, nb, k) # {}})

\* binned_statistic has run
Binned == bin_edges # <<>>

(***************************************************************************)
(* C16.  In structFunc every pair (i, j), j < i, whose lag t_i - t_j lies  *)
(* inside the bin range is assigned to exactly one of the equal-width      *)
(* bins, the bin whose interval holds the lag; a pair whose lag lies       *)
(* outside the range is assigned to no bin.  D_k is the mean of            *)
(* (x_i - x_j)^2 over the pairs assigned to bin k, with x = value /        *)
(* mean(value), and the lag of bin k is the centre of bin k; a returned    *)
(* call reports, per bin with pairs, that centre and sqrt(D_k).  Stated    *)
(* where binned_statistic has just run and where the call has returned.    *)
(***************************************************************************)
C16_BinnedPairs ==
    (Binned /\ pc \in {"count", "returned"}) =>
      \A R \in {BinRange(args.time, args.nbins)} :
      \A nb \in {NumberOfBins(args.nbins)} :
      \A x \in {Fractional(args.value)} :
        /\ \A p \in OrderedPairs(Len(args.time)) :
              \A lag \in {LagOfPair(args.time, p)} :
              \A ks \in {{k \in 1..nb : LagInBin(lag, R, nb, k)}} :
                 /\ Cardinality(ks) <= 1
                 /\ ks = {} <=> (2 * lag < R[1] \/ R[2] < 2 * lag)
        /\ Len(taus) = Cardinality(OrderedPairs(Len(args.time)))
        /\ \A m \in 1..Len(taus) :
              \A ks \in {{k \in 1..nb : LagInBin(taus[m], R, nb, k)}} :
                 IF ks = {} THEN binnumber[m] \notin 1..nb
                            ELSE binnumber[m] \in ks
        /\ Len(bin_means) = nb /\ Len(bin_centers) = nb
        /\ \A k \in 1..nb :
              \A P \in {PairsOfBin(args.time, R, nb, k)} :
                 /\ bin_means[k] = IF P = {} THEN NaN ELSE MeanSquareOf(x, P)
                 /\ bin_centers[k] = CentreOfBin(R, nb, k)
        /\ pc = "returned" =>
              \A ne \in {NonEmptyBins(args.time, R, nb)} :
                 /\ result[1] = [m \in 1..Len(ne) |-> CentreOfBin(R, nb, ne[m])]
                 /\ result[2] = [m \in 1..Len(ne) |->
                                   np_sqrt(MeanSquareOf(x,
                                       PairsOfBin(args.time, R, nb, ne[m])))]

\* a returned call with edges passed, a lag below the range, a lag above it
\* and a lag on an inner edge
C16_Witness ==
    /\ pc = "returned"
    /\ args.nbins.kind = "edges"
    /\ \E m \in 1..Len(taus) : binnumber[m] = 0
    /\ \E m \in 1..Len(taus) : binnumber[m] = NumberofBins + 1
    /\ \E m \in 1..Len(taus) : \E k \in 2..Len(bin_edges) - 1 : Q(taus[m]) = bin_edges[k]
    /\ Len(result[1]) >= 1

\* the mean of the errors divided by mean(value)
MeanErrorOf(e, v) == MeanOf([i \in 1..Len(e) |-> RDiv(e[i], MeanOf(v))])

\* sigma_D / (2 * sqrt(D)) with sigma_D = sqrt(8 * meanError^2 * D / (n + 1))
BinnedUncertainty(meanError, D, n) ==
    SDiv(np_sqrt(RDiv(RMul(RMul(Q(8), RMul(meanError, meanError)), D), Q(n + 1))),
         SScale(2, np_sqrt(D)))

(***************************************************************************)
(* C15.  In a returned call of structFunc the uncertainty reported for a   *)
(* bin k is sigma_D / (2 * sqrt(D_k)) with sigma_D = sqrt(8 * meanError^2  *)
(* * D_k / (n_k + 1)), D_k being the mean squared difference of the pairs  *)
(* of bin k and n_k the number of pairs of that same bin k.                *)
(***************************************************************************)
C15_UncertaintyOfOwnBin ==
    pc = "returned" =>
      \A R \in {BinRange(args.time, args.nbins)} :
      \A nb \in {NumberOfBins(args.nbins)} :
      \A x \in {Fractional(args.value)} :
      \A meanError \in {MeanErrorOf(args.error, args.value)} :
      \A ne \in {NonEmptyBins(args.time, R, nb)} :
        /\ Len(result[3]) = Len(ne)
        /\ \A m \in 1..Len(ne) :
              \A P \in {PairsOfBin(args.time, R, nb, ne[m])} :
                 result[3][m] =
                    BinnedUncertainty(meanError, MeanSquareOf(x, P), Cardinality(P))

(***************************************************************************)
(* C17.  structFunc accepts a number of bins or an array of edges of any   *)
(* size: a call with at least two samples (one pair) returns, whatever the *)
(* number of bins that nbins stands for.                                   *)
(***************************************************************************)
C17_AnyNumberOfBins ==
    pc = "raised" => Len(args.time) < 2

(***************************************************************************)
(* C18.  A returned call of structFunc reports exactly the bins with at    *)
(* least one pair: the three arrays have one length, the number of those   *)
(* bins; entry m of each belongs to the m-th such bin (its centre, the     *)
(* root of its mean, its entry of the uncertainty array); no sqrt(D) is    *)
(* NaN.  (The sliding estimator keeps a lag without pairs as NaN: C4.)     *)
(***************************************************************************)
C18_OnlyNonEmptyBins ==
    pc = "returned" =>
      \A R \in {BinRange(args.time, args.nbins)} :
      \A nb \in {NumberOfBins(args.nbins)} :
      \A ne \in {NonEmptyBins(args.time, R, nb)} :
        /\ Len(result) = 3
        /\ \A a \in 1..3 : Len(result[a]) = Len(ne)
        /\ Len(ne) = Cardinality({k \in 1..nb : PairsOfBin(args.time, R, nb, k) # {}})
        /\ \A m \in 1..Len(ne) :
              /\ result[1][m] = bin_centers[ne[m]]
              /\ result[2][m] = np_sqrt(bin_means[ne[m]])
              /\ result[3][m] = sigmaSQRTD[ne[m]]
              /\ ~SIsNaN(result[2][m])

\* a returned call with two bins that have pairs and bins that have none
\* before, between and after them
C18_Witness ==
    /\ pc = "returned"
    /\ Len(result[1]) = 2
    /\ \E k \in 2..(NumberofBins - 1) :
          /\ ~IsNaN(bin_means[k])
          /\ IsNaN(bin_means[k - 1]) /\ IsNaN(bin_means[k + 1])
          /\ \E j \in (k + 2)..NumberofBins : ~IsNaN(bin_means[j])
    /\ result[2][1] # result[2][2]

(***************************************************************************)
(* The binning loop of plotfsdarray.py                                     *)
(* ("src/GRMHD Variability/EHT Data/Plots/plotfsdarray.py", lines 28-49    *)
(* for the SMA data and, word for word, lines 69-90 for the ALMA data):    *)
(* one pass of "for time in intervals" over the samples of one day.  The   *)
(* stamps and the interval are integers (a common unit of time).           *)
(***************************************************************************)
\* np.argmin: the first index (0-based) of a smallest element
np_argmin(a) ==
    (CHOOSE i \in 1..Len(a) :
        /\ \A j \in 1..Len(a) : a[i] <= a[j]
        /\ \A j \in 1..(i - 1) : a[j] > a[i]) - 1

\* a[st:end], the Python slice for 0 <= st and 0 <= end
Slice(a, st, end) ==
    LET hi == IF end > Len(a) THEN Len(a) ELSE end
    IN  IF st >= hi THEN <<>> ELSE [k \in 1..(hi - st) |-> a[st + k]]

\* np.split(a, indices): the slices between consecutive indices, from 0 to
\* the first one and from the last one to the end; one more than indices
np_split(a, indices) ==
    LET div_points == <<0>> \o indices \o <<Len(a)>>
    IN  [k \in 1..(Len(indices) + 1) |-> Slice(a, div_points[k], div_points[k + 1])]

\* a rational as a surd
SurdOf(q) == IF IsNaN(q) THEN SNaN ELSE <<Sgn(q[1]), RMul(q, q)>>

\* np.std(chunk): the root of the mean squared deviation from the mean
np_std(a) ==
    np_sqrt(np_mean([k \in 1..Len(a) |->
                        RMul(RSub(a[k], np_mean(a)), RSub(a[k], np_mean(a)))]))

\* np.std(chunk) / np.mean(chunk)  (line 46)
FSD(chunk) == SDiv(np_std(chunk), SurdOf(np_mean(chunk)))

\* what the loop leaves alone
OutsideBinning == <<args, value, error, sliding, binned, movie, mainLocals>>

(***************************************************************************)
(* Lines 29-35: the number of intervals and the cut indices.               *)
(***************************************************************************)
Cuts ==
    /\ pc = "intervals"
    /\ \E num \in {(np_max(ctime) - np_min(ctime)) \div time} :
          /\ num_intervals' = num
          /\ index_list' =
               [n \in 1..num |->
                  np_argmin([k \in 1..Len(ctime) |->
                               Abs(ctime[k] - (time * n + np_min(ctime)))]) + 1]
    /\ pc' = "split"
    /\ UNCHANGED <<time, ctime, flux, flux_arr, fsd_list, fsds, exc>>
    /\ UNCHANGED OutsideBinning

(***************************************************************************)
(* Line 38: np.split(flux, index_list).                                    *)
(***************************************************************************)
Split ==
    /\ pc = "split"
    /\ flux_arr' = np_split(flux, index_list)
    /\ pc' = "trailing"
    /\ UNCHANGED <<time, ctime, flux, num_intervals, index_list, fsd_list, fsds, exc>>
    /\ UNCHANGED OutsideBinning

(***************************************************************************)
(* Lines 41-42: if len(index_list) < len(flux_arr): del flux_arr[-1].      *)
(***************************************************************************)
DropTrailing ==
    /\ pc = "trailing"
    /\ flux_arr' = IF Len(index_list) < Len(flux_arr)
                   THEN SubSeq(flux_arr, 1, Len(flux_arr) - 1)
                   ELSE flux_arr
    /\ pc' = "chunks"
    /\ UNCHANGED <<time, ctime, flux, num_intervals, index_list, fsd_list, fsds, exc>>
    /\ UNCHANGED OutsideBinning

(***************************************************************************)
(* Lines 45-46: the FSD of every chunk.                                    *)
(***************************************************************************)
ChunkFSDs ==
    /\ pc = "chunks"
    /\ fsd_list' = [k \in 1..Len(flux_arr) |-> FSD(flux_arr[k])]
    /\ pc' = "average"
    /\ UNCHANGED <<time, ctime, flux, num_intervals, index_list, flux_arr, fsds, exc>>
    /\ UNCHANGED OutsideBinning

(***************************************************************************)
(* Line 49: fsds.append(sum(fsd_list) / len(fsd_list)).  The sum of roots  *)
(* is kept as its terms; without a chunk the division raises.              *)
(***************************************************************************)
Average ==
    /\ pc = "average"
    /\ IF fsd_list = <<>>
       THEN /\ Raise("ZeroDivisionError")
            /\ UNCHANGED fsds
       ELSE /\ fsds' = Append(fsds, [sum |-> fsd_list, len |-> Len(fsd_list)])
            /\ pc' = "appended"
            /\ exc' = exc
    /\ UNCHANGED <<time, ctime, flux, num_intervals, index_list, flux_arr, fsd_list>>
    /\ UNCHANGED OutsideBinning

NextBinning == Cuts \/ Split \/ DropTrailing \/ ChunkFSDs \/ Average

(***************************************************************************)
(* The data of a day: one to MaxN samples at increasing stamps in 0..MaxT, *)
(* a flux per sample; the interval is one of Intervals.                    *)
(***************************************************************************)
\* the binning intervals (line 10), in the unit of the stamps
Intervals == {1, 2, 3}

Observations ==
    {t \in TimeSeries : Len(t) >= 1 /\ \A i \in 1..(Len(t) - 1) : t[i] < t[i + 1]}

InitBinning ==
    \E t \in Observations :
      \E f \in Arrays(FluxValues, Len(t)), interval \in Intervals :
        /\ args = [ctime |-> t, flux |-> f]
        /\ ctime = t
        /\ flux = f
        /\ time = interval
        /\ num_intervals = <<>> /\ index_list = <<>> /\ flux_arr = <<>>
        /\ fsd_list = <<>> /\ fsds = <<>>
        /\ value = <<>> /\ error = <<>>
        /\ pc = "intervals"
        /\ exc = ""
        /\ IdleSliding /\ IdleBinned /\ IdleMovie /\ IdleMain

SpecBinning == InitBinning /\ [][NextBinning]_vars

\* the samples of the chunks, in order
RECURSIVE Concat(_)
Concat(chunks) ==
    IF chunks = <<>> THEN <<>> ELSE chunks[1] \o Concat(Tail(chunks))

(***************************************************************************)
(* C19.  After the split and the removal of the trailing chunk, a trailing *)
(* chunk with samples is still there: the chunks that enter the averaged   *)
(* FSD hold every flux sample, each once and in order, and only an empty   *)
(* trailing chunk has been removed.                                        *)
(***************************************************************************)
C19_TrailingChunkKept ==
    pc \in {"chunks", "average", "appended"} =>
        /\ Concat(flux_arr) = flux
        /\ (Len(index_list) > 0 /\ Len(flux_arr) = Len(index_list))
              => Slice(flux, index_list[Len(index_list)], Len(flux)) = <<>>

(***************************************************************************)
(* make_simulation_movie_only ("src/simMovie.py").  An HDF5 file is what   *)
(* the readers look at in it:                                              *)
(*   header: header/camera/dx and header/camera/nx are present;            *)
(*   unpol:  the dataset "unpol" is absent ("none"), a 2-D nx by nx image  *)
(*           ("square"), or present and not such an image ("other": not    *)
(*           two-dimensional and not convertible to 2-D);                  *)
(*   image:  a 2-D numeric dataset "image" is present.                     *)
(***************************************************************************)
\* most files of a folder
MaxFiles == 3

Files == [header : BOOLEAN, unpol : {"none", "square", "other"}, image : BOOLEAN]

\* read_grmhd_with_units(file) is not None  (lines 97-131): the three keys
\* are present, the image is 2-D and nx by nx
Units(f) == f.header /\ f.unpol = "square"

\* detect_image_dataset_path: the 2-D numeric datasets of the file, the
\* candidates of which the best-scored is returned  (lines 159-189)
Candidates(f) ==
    (IF f.unpol = "square" THEN {"unpol"} ELSE {})
    \cup (IF f.image THEN {"image"} ELSE {})

\* read_image_from_h5(file, path): "" for an image, or the exception: KeyError
\* for f[dataset_path] on a missing path (h5py), RuntimeError for an array
\* that is not convertible to 2-D  (lines 205-214)
ReadImage(f, path) ==
    IF path = "image" THEN (IF f.image THEN "" ELSE "KeyError")
    ELSE IF f.unpol = "none" THEN "KeyError"
    ELSE IF f.unpol = "other" THEN "RuntimeError"
    ELSE ""

\* variant: a frame without the header keys is read by the fallback reader
ReadFrameOrFallBack(up, f, path) ==
    IF up /\ Units(f) THEN [exc |-> "", reader |-> "units", path |-> None]
    ELSE [exc |-> ReadImage(f, IF IsNone(path) THEN "unpol" ELSE Get(path)),
          reader |-> "pixels", path |-> path]

\* the body of update(i) up to Ii  (lines 380-386)
ReadFrame(up, f, path) ==
    IF up
    THEN [exc |-> IF Units(f) THEN "" ELSE "RuntimeError",
          reader |-> "units", path |-> None]
    ELSE [exc |-> ReadImage(f, Get(path)), reader |-> "pixels", path |-> path]

\* what the function leaves alone
OutsideMovie == <<args, time, value, error, sliding, binned, binning, mainLocals>>

(***************************************************************************)
(* Lines 323-344: the reading mode, from the first file, and the first     *)
(* image.  Which candidate detect_image_dataset_path scores best depends   *)
(* on the shapes of the datasets, which a file of the model does not       *)
(* carry: any candidate may be the one returned.                           *)
(***************************************************************************)
ChooseMode ==
    /\ pc = "movie"
    /\ use_physical' = Some(Units(h5_files[1]))
    /\ IF Units(h5_files[1])
       THEN /\ dataset_path' = None
            /\ reads' = <<[file |-> 0, reader |-> "units", path |-> None]>>
            /\ im' = [file |-> 0, reader |-> "units"]
            /\ pc' = "animate"
            /\ exc' = exc
       ELSE IF IsNone(args.dataset_path_override) /\ Candidates(h5_files[1]) = {}
       THEN \* detect_image_dataset_path finds no candidate
            /\ Raise("RuntimeError")
            /\ UNCHANGED <<dataset_path, reads, im>>
       ELSE \E p \in IF IsNone(args.dataset_path_override)
                     THEN Candidates(h5_files[1])
                     ELSE {Get(args.dataset_path_override)} :
               /\ dataset_path' = Some(p)
               /\ IF ReadImage(h5_files[1], p) # ""
                  THEN /\ Raise(ReadImage(h5_files[1], p))
                       /\ UNCHANGED <<reads, im>>
                  ELSE /\ reads' = <<[file |-> 0, reader |-> "pixels",
                                      path |-> Some(p)]>>
                       /\ im' = [file |-> 0, reader |-> "pixels"]
                       /\ pc' = "animate"
                       /\ exc' = exc
    /\ UNCHANGED <<h5_files, frame>>
    /\ UNCHANGED OutsideMovie

(***************************************************************************)
(* Lines 379-390: update(i), called by ani.save for i = 0 .. len - 1.      *)
(***************************************************************************)
Update ==
    /\ pc = "animate"
    /\ frame < Len(h5_files)
    /\ \E r \in {ReadFrame(Get(use_physical), h5_files[frame + 1], dataset_path)} :
          IF r.exc # ""
          THEN /\ Raise(r.exc)
               /\ UNCHANGED <<im, reads, frame>>
          ELSE /\ im' = [file |-> frame, reader |-> r.reader]
               /\ reads' = Append(reads, [file |-> frame, reader |-> r.reader,
                                          path |-> r.path])
               /\ frame' = frame + 1
               /\ UNCHANGED <<pc, exc>>
    /\ UNCHANGED <<h5_files, use_physical, dataset_path>>
    /\ UNCHANGED OutsideMovie

(***************************************************************************)
(* Lines 394-395: ani.save returns after the last frame; plt.close(fig).   *)
(***************************************************************************)
Save ==
    /\ pc = "animate"
    /\ frame = Len(h5_files)
    /\ pc' = "saved"
    /\ UNCHANGED <<h5_files, use_physical, dataset_path, frame, im, reads, exc>>
    /\ UNCHANGED OutsideMovie

NextMovie == ChooseMode \/ Update \/ Save

(***************************************************************************)
(* The calls: one to MaxFiles files of any kind, with or without a dataset *)
(* path override.                                                          *)
(***************************************************************************)
Folders == UNION {[1..n -> Files] : n \in 1..MaxFiles}

InitMovie ==
    \E fs \in Folders, o \in {None, Some("unpol"), Some("image")} :
        /\ args = [h5_files |-> fs, dataset_path_override |-> o]
        /\ h5_files = fs
        /\ use_physical = None
        /\ dataset_path = None
        /\ frame = 0
        /\ im = <<>>
        /\ reads = <<>>
        /\ time = <<>> /\ value = <<>> /\ error = <<>>
        /\ pc = "movie"
        /\ exc = ""
        /\ IdleSliding /\ IdleBinned /\ IdleBinning /\ IdleMain

SpecMovie == InitMovie /\ [][NextMovie]_vars

\* the mode of the call, once chosen
Physical == ~IsNone(use_physical) /\ Get(use_physical)
FallBack == ~IsNone(use_physical) /\ ~Get(use_physical)

\* the first file has the header keys and a square image
FirstFileHasUnits ==
    /\ args.h5_files[1].header
    /\ args.h5_files[1].unpol = "square"

(***************************************************************************)
(* C20.  In make_simulation_movie_only the reading mode is chosen once,    *)
(* from the first file: physical exactly when the physical-units reader    *)
(* returns a result for it, otherwise the pixel fallback with a dataset    *)
(* path fixed then (the override when one is given).  The mode and the     *)
(* path never change afterwards.  In physical mode every frame is read by  *)
(* the physical-units reader, and update on a frame for which that reader  *)
(* returns nothing raises RuntimeError, without a fallback read and        *)
(* without a new image.  In fallback mode every frame is read by the pixel *)
(* reader from the one dataset path.                                       *)
(***************************************************************************)
C20_ModeChosenOnce ==
    /\ [](~IsNone(use_physical) => (Get(use_physical) <=> FirstFileHasUnits))
    /\ [][~IsNone(use_physical) =>
             /\ use_physical' = use_physical
             /\ dataset_path' = dataset_path]_vars
    /\ [](Physical =>
             /\ IsNone(dataset_path)
             /\ \A k \in 1..Len(reads) : reads[k].reader = "units")
    /\ [][(Physical /\ pc = "animate" /\ frame < Len(h5_files)
              /\ ~(h5_files[frame + 1].header /\ h5_files[frame + 1].unpol = "square"))
            => (pc' = "raised" /\ exc' = "RuntimeError" /\ reads' = reads /\ im' = im)]_vars
    /\ [](FallBack /\ pc # "raised" =>
             /\ ~IsNone(dataset_path)
             /\ ~IsNone(args.dataset_path_override)
                   => dataset_path = args.dataset_path_override)
    /\ [](FallBack =>
             \A k \in 1..Len(reads) :
                reads[k].reader = "pixels" /\ reads[k].path = dataset_path)

\* physical mode, two frames shown, and update has raised RuntimeError on a
\* third file that has lost its header keys and that the fallback reader
\* could have read
C20_Witness ==
    /\ pc = "raised" /\ exc = "RuntimeError"
    /\ Physical
    /\ frame = 2
    /\ Len(reads) = 3
    /\ ~h5_files[3].header
    /\ h5_files[3].unpol = "square" /\ h5_files[3].image

(***************************************************************************)
(* C21.  No step of a call of the sliding estimator, whether the call      *)
(* returns or raises, changes the time, value or error array the caller    *)
(* holds: each has the same elements after the step as before it.          *)
(***************************************************************************)
C21_CallerArraysUnchanged ==
    [][/\ args'.time = args.time
       /\ args'.value = args.value
       /\ args'.error = args.error]_vars

\* a call that raised after the normalization: the local value is no longer
\* the array passed
C21_Witness ==
    /\ pc = "raised"
    /\ exc = "IndexError"
    /\ Len(value) >= 2
    /\ value # args.value

\* the lags of the grid to which the unordered pair p has contributed
BinsOfPair(p) == {k \in 1..Len(pairs) : p \in AsSet(pairs[k])}

\* the number of contributions counted over the finished lags
RECURSIVE TotalCount(_)
TotalCount(ps) == IF ps = <<>> THEN 0 ELSE Len(ps[1]) + TotalCount(Tail(ps))

(***************************************************************************)
(* C22.  In a returned call with maxLag omitted (windowWidth given or      *)
(* defaulted, and positive since the call returned), every unordered pair  *)
(* of samples has contributed to at least one lag of the grid and to at    *)
(* most two, and to two only when its separation is windowWidth * k +      *)
(* windowWidth / 2 for a grid lag windowWidth * k; the per-lag pair counts *)
(* add up to at least N(N-1)/2 and at most N(N-1).                         *)
(***************************************************************************)
C22_EveryPairCounted ==
    (pc = "returned" /\ IsNone(args.dt_max)) =>
        \A w \in {Get(dt0)} :
        \A n \in {Len(args.time)} :
           /\ w > 0
           /\ \A p \in UnorderedPairs(n) :
                 \A B \in {BinsOfPair(p)} :
                    /\ Cardinality(B) \in {1, 2}
                    /\ Cardinality(B) = 2 =>
                          \E k \in B : 2 * Separation(args.time, p)
                                          = 2 * target_dts[k] + w
           /\ 2 * TotalCount(pairs) >= n * (n - 1)
           /\ TotalCount(pairs) <= n * (n - 1)

\* three samples, maxLag omitted: a pair counted at one lag, a pair counted
\* at two, and a total strictly between the two ends
C22_Witness ==
    /\ pc = "returned"
    /\ IsNone(args.dt_max)
    /\ Len(args.time) = 3
    /\ \E p \in UnorderedPairs(3) : Cardinality(BinsOfPair(p)) = 1
    /\ \E p \in UnorderedPairs(3) : Cardinality(BinsOfPair(p)) = 2
    /\ TotalCount(pairs) > 3 /\ TotalCount(pairs) < 6

\* the time stamps of the call are pairwise distinct
DistinctStamps ==
    \A i, j \in 1..Len(args.time) : i # j => args.time[i] # args.time[j]

\* the lags of the grid with a sqrt(D) that is not NaN
DefinedLags == {target_dts[k] : k \in {m \in 1..Len(sqrtD1) : ~SIsNaN(sqrtD1[m])}}

(***************************************************************************)
(* C23, as stated.  With windowWidth omitted and all time stamps distinct, *)
(* the lag-0 bin has no contributing pair, the first sqrt(D) is NaN, and   *)
(* the smallest lag with a defined value is windowWidth.                   *)
(***************************************************************************)
C23_FirstDefinedLagIsWidth ==
    (pc = "returned" /\ IsNone(args.dt0) /\ DistinctStamps) =>
        /\ pairs[1] = <<>>
        /\ sqrtD1[1] = SNaN
        /\ Get(dt0) \in DefinedLags
        /\ \A lag \in DefinedLags : lag >= Get(dt0)

(***************************************************************************)
(* C23, amended.  With windowWidth omitted and all time stamps distinct,   *)
(* the lag-0 bin has no contributing pair and its sqrt(D) is NaN as soon   *)
(* as it has been scanned; in a returned call no lag below windowWidth has *)
(* a defined value, and the lag windowWidth has one when it is on the      *)
(* grid, that is when maxLag is omitted or positive.                       *)
(***************************************************************************)
C23_LagZeroIsEmpty ==
    (IsNone(args.dt0) /\ DistinctStamps) =>
        /\ Finished # {} => (pairs[1] = <<>> /\ sqrtD1[1] = SNaN)
        /\ pc = "returned" =>
              /\ \A lag \in DefinedLags : lag >= Get(dt0)
              /\ (IsNone(args.dt_max) \/ Get(args.dt_max) > 0)
                    => Get(dt0) \in DefinedLags

\* three distinct stamps, windowWidth omitted and a positive maxLag given: the
\* grid has three lags or more, lag 0 is NaN and the second lag, windowWidth,
\* has a positive sqrt(D)
C23_Witness ==
    /\ pc = "returned"
    /\ IsNone(args.dt0) /\ DistinctStamps
    /\ Len(args.time) = 3
    /\ ~IsNone(args.dt_max) /\ Get(args.dt_max) > 0
    /\ Len(target_dts) >= 3
    /\ sqrtD1[1] = SNaN
    /\ ~SIsNaN(sqrtD1[2]) /\ sqrtD1[2] # SZero
    /\ target_dts[2] = Get(dt0)


(***************************************************************************)
(* main of "src/simMovie.py" (lines 401-452): list the frames, render the  *)
(* simulation-only movie, probe its size, build the title clip,            *)
(* concatenate the two and remove the two temporary files.                 *)
(*                                                                         *)
(* The disk is the set of the files that exist among the three main        *)
(* writes.  ffmpeg and ffprobe are outside the program: each run of one    *)
(* may succeed or fail, and a run that fails may or may not leave its      *)
(* output file behind.  os.makedirs (line 419) may fail as well.  A folder *)
(* is None when it is not a directory, and else the sorted list of its     *)
(* .h5 files (lines 68-72), possibly empty.                                *)
(***************************************************************************)
\* most .h5 files of the folder main is given
MaxListed == 2

\* os.path.abspath of a relative path: the working directory before it
abspath(p) == "/cwd/" \o p

\* lines 418, 421 and 422
out_abs == abspath(args.outfile)
sim_tmp == out_abs \o ".sim_only.mp4"
title_tmp == out_abs \o ".title.mp4"

\* list_h5_files(folder): "" and the list, or the exception  (lines 64-75)
list_h5_files(folder) ==
    IF IsNone(folder) THEN [exc |-> "FileNotFoundError", h5s |-> <<>>]
    ELSE IF Get(folder) = <<>> THEN [exc |-> "FileNotFoundError", h5s |-> <<>>]
    ELSE [exc |-> "", h5s |-> Get(folder)]

\* ani.save calling update(i) from frame k on: the exception of the first
\* frame that raises, "" when every frame is read  (lines 379-394)
RECURSIVE Frames(_, _, _, _)
Frames(up, fs, path, k) ==
    IF k > Len(fs) THEN ""
    ELSE IF ReadFrame(up, fs[k], path).exc # "" THEN ReadFrame(up, fs[k], path).exc
    ELSE Frames(up, fs, path, k + 1)

\* make_simulation_movie_only(h5_files, ..., dataset_path_override) as one
\* call: its possible ends, each the exception raised ("" for none) and
\* whether ani.save, which opens the output file, had been reached
\* (lines 323-395)
make_simulation_movie_only(fs, o) ==
    IF Units(fs[1])
    THEN {[exc |-> Frames(TRUE, fs, None, 1), saving |-> TRUE]}
    ELSE IF IsNone(o) /\ Candidates(fs[1]) = {}
    THEN {[exc |-> "RuntimeError", saving |-> FALSE]}
    ELSE {IF ReadImage(fs[1], p) # ""
          THEN [exc |-> ReadImage(fs[1], p), saving |-> FALSE]
          ELSE [exc |-> Frames(FALSE, fs, Some(p), 1), saving |-> TRUE] :
          p \in IF IsNone(o) THEN Candidates(fs[1]) ELSE {Get(o)}}

\* what ffprobe may give: the run fails (check=True raises), or it prints
\* fields separated by "x", each Some(n) for the digits of n and None for
\* a field int() does not take ("", "N/A")
ProbeOutputs ==
    {[failed |-> TRUE, fields |-> <<>>]}
    \cup {[failed |-> FALSE, fields |-> f] :
            f \in {<<None>>, <<Some(1000), Some(1000)>>, <<Some(640), Some(480)>>,
                   <<None, None>>, <<Some(640), Some(480), Some(3)>>}}

\* the size returned when the probe fails  (line 233)
DefaultSize == <<1000, 1000>>

\* ffprobe_wh: the two integers printed, and (1000, 1000) when the run
\* fails, when the output has no "x", and when split or int raise
\* (lines 220-233)
ffprobe_wh(p) ==
    IF p.failed THEN DefaultSize
    ELSE IF Len(p.fields) < 2 THEN DefaultSize
    ELSE IF Len(p.fields) # 2 THEN DefaultSize
    ELSE IF IsNone(p.fields[1]) \/ IsNone(p.fields[2]) THEN DefaultSize
    ELSE <<Get(p.fields[1]), Get(p.fields[2])>>

\* variant: the file is left where it is
KeptOnDisk(d, fp) == d

\* if os.path.exists(fp): os.remove(fp)  (lines 449-450)
Removed(d, fp) == IF fp \in d THEN d \ {fp} ELSE d

\* a command given fp as output ends: with the file written, or having
\* failed with or without a part of it on the disk
Leaves(fp, left) ==
    /\ disk' = IF left THEN disk \cup {fp} ELSE disk
    /\ written' = IF left THEN written \cup {fp} ELSE written

\* what main leaves alone
OutsideMain ==
    <<args, time, value, error, sliding, binned, binning,
      use_physical, dataset_path, frame, im, reads>>

\* lines 414-424
ListFiles ==
    /\ pc = "list"
    /\ stages' = Append(stages, "list")
    /\ \E l \in {list_h5_files(args.folder)}, made \in BOOLEAN :
          IF l.exc # ""
          THEN Raise(l.exc) /\ h5_files' = h5_files
          ELSE /\ h5_files' = l.h5s
               /\ IF made THEN pc' = "render" /\ exc' = exc
                          ELSE Raise("OSError")
    /\ UNCHANGED <<disk, wh, written>>
    /\ UNCHANGED OutsideMain

\* lines 426-432
Render ==
    /\ pc = "render"
    /\ stages' = Append(stages, "render")
    /\ \E r \in make_simulation_movie_only(h5_files, args.dataset_path),
          ffmpeg \in BOOLEAN, left \in BOOLEAN :
          IF r.exc # ""
          THEN Raise(r.exc) /\ Leaves(sim_tmp, r.saving /\ left)
          ELSE IF ~ffmpeg
          THEN Raise("CalledProcessError") /\ Leaves(sim_tmp, left)
          ELSE pc' = "probe" /\ exc' = exc /\ Leaves(sim_tmp, TRUE)
    /\ UNCHANGED <<h5_files, wh>>
    /\ UNCHANGED OutsideMain

\* line 434
Probe ==
    /\ pc = "probe"
    /\ stages' = Append(stages, "probe")
    /\ \E p \in ProbeOutputs : wh' = Some(ffprobe_wh(p))
    /\ pc' = "title"
    /\ UNCHANGED <<h5_files, disk, written, exc>>
    /\ UNCHANGED OutsideMain

\* lines 435-444, make_title_clip_ffmpeg  (lines 243-293)
Title ==
    /\ pc = "title"
    /\ stages' = Append(stages, "title")
    /\ \E ffmpeg \in BOOLEAN, left \in BOOLEAN :
          IF ~args.fontfile
          THEN Raise("FileNotFoundError") /\ UNCHANGED <<disk, written>>
          ELSE IF ~ffmpeg
          THEN Raise("CalledProcessError") /\ Leaves(title_tmp, left)
          ELSE pc' = "concat" /\ exc' = exc /\ Leaves(title_tmp, TRUE)
    /\ UNCHANGED <<h5_files, wh>>
    /\ UNCHANGED OutsideMain

\* line 446, concat_title_and_sim_reencode  (lines 296-310)
Concatenate ==
    /\ pc = "concat"
    /\ stages' = Append(stages, "concat")
    /\ \E ffmpeg \in BOOLEAN, left \in BOOLEAN :
          IF ~ffmpeg
          THEN Raise("CalledProcessError") /\ Leaves(out_abs, left)
          ELSE pc' = "delete" /\ exc' = exc /\ Leaves(out_abs, TRUE)
    /\ UNCHANGED <<h5_files, wh>>
    /\ UNCHANGED OutsideMain

\* lines 448-452
Delete ==
    /\ pc = "delete"
    /\ stages' = Append(stages, "delete")
    /\ disk' = Removed(Removed(disk, sim_tmp), title_tmp)
    /\ pc' = "done"
    /\ UNCHANGED <<h5_files, wh, written, exc>>
    /\ UNCHANGED OutsideMain

NextMain == ListFiles \/ Render \/ Probe \/ Title \/ Concatenate \/ Delete

(***************************************************************************)
(* The runs: a folder that is missing, empty or holds up to MaxListed      *)
(* files of any kind, a font file that exists or not, and a disk on which  *)
(* any of the three files may be left from an earlier run.                 *)
(***************************************************************************)
Listings ==
    {None, Some(<<>>)} \cup {Some(fs) : fs \in {f \in Folders : Len(f) <= MaxListed}}

Outfiles == {"movie.mp4"}

InitMain ==
    \E fo \in Listings, o \in {None, Some("unpol"), Some("image")},
       font \in BOOLEAN, out \in Outfiles :
       \E old \in SUBSET {abspath(out), abspath(out) \o ".sim_only.mp4",
                          abspath(out) \o ".title.mp4"} :
        /\ args = [folder |-> fo, dataset_path |-> o, fontfile |-> font,
                   outfile |-> out, existing |-> old]
        /\ disk = old
        /\ stages = <<>>
        /\ wh = None
        /\ written = {}
        /\ h5_files = <<>>
        /\ use_physical = <<>> /\ dataset_path = <<>> /\ frame = <<>>
        /\ im = <<>> /\ reads = <<>>
        /\ time = <<>> /\ value = <<>> /\ error = <<>>
        /\ pc = "list"
        /\ exc = ""
        /\ IdleSliding /\ IdleBinned /\ IdleBinning

SpecMain == InitMain /\ [][NextMain]_vars

\* the stages in the order of the statement
StageOrder == <<"list", "render", "probe", "title", "concat", "delete">>

\* the two temporary files
Temporary == {sim_tmp, title_tmp}

(***************************************************************************)
(* C24.  The stages of main run in the order list files, render, probe,    *)
(* title clip, concatenate, delete; a temporary file leaves the disk only  *)
(* in the delete stage, entered after concatenation has succeeded; after a *)
(* successful run neither temporary file exists; the step in which a stage *)
(* raises removes no file, and after it the temporary files that existed   *)
(* before the run or were written by it are on the disk.                   *)
(***************************************************************************)
C24_CleanupOnlyAfterConcatenation ==
    /\ [](\E n \in 0..Len(StageOrder) : stages = SubSeq(StageOrder, 1, n))
    /\ [][(\E fp \in Temporary : fp \in disk /\ fp \notin disk')
             => (pc = "delete" /\ exc = ""
                 /\ stages = SubSeq(StageOrder, 1, 5) /\ out_abs \in written)]_vars
    /\ [](pc = "done" => (stages = StageOrder /\ disk \cap Temporary = {}))
    /\ [][pc' = "raised" => disk \subseteq disk']_vars
    /\ [](pc = "raised" =>
             /\ "delete" \notin {stages[k] : k \in 1..Len(stages)}
             /\ (args.existing \cup written) \subseteq disk)

\* a successful run over a disk that held the simulation-only movie of an
\* earlier run: both temporary files were written, and both are gone
C24_Witness ==
    /\ pc = "done"
    /\ stages = StageOrder
    /\ sim_tmp \in args.existing
    /\ written = {sim_tmp, title_tmp, out_abs}
    /\ disk = {out_abs}

====
